---- MODULE Spec2Model ----
(***************************************************************************)
(* Stop-and-Wait ARQ of src/project.py: send() fragments a buffer into     *)
(* DATA packets with a 1-bit alternating sequence number and waits for the *)
(* matching ACK, retransmitting on timeout; recv() writes the accepted     *)
(* payloads to a sink and acknowledges them.  Packets are byte sequences   *)
(* (struct.pack("!HH", type, seq) followed by the payload); the channel is *)
(* the datagram transport both functions are handed as `sock`.             *)
(***************************************************************************)
EXTENDS Integers, Sequences, FiniteSets, TLC

\* ------------------------------------------------------------------ bounds
\* Longest buffer of the loss-free specification (bytes).
MaxLen == 9
\* Longest buffer of the specifications with a faulty channel (bytes).
MaxLenLossy == 9
\* How many DATA packets, and how many ACK packets, the channel may drop.
MaxDataDrops == 1
MaxAckDrops == 1
\* How many timeouts may fire while a packet is still in flight.
MaxPremature == 2
\* How many packets the channel may mangle.
MaxCorrupt == 1
\* Longest measured wait for an ACK that arrives, in units of 10^-5 s.
MaxElapsed == 2

\* --------------------------------------------------------------- constants
DATA_PACKET == 0
ACK_P == 1
\* util.MAX_PACKET, the value of the specification's scenario.
MAX_PACKET == 8
\* struct "!HH": two big-endian 16-bit unsigned fields.
HEADER_SIZE == 4
\* Line 34: sock.settimeout(.05), in units of 10^-5 s, the precision that
\* round(..., 5) keeps.
INITIAL_TIMEOUT == 5000
\* Lines 58 and 70: the two values of alpha, as fractions.
ALPHA_ACK == <<3, 10>>
ALPHA_TIMEOUT == <<1, 1>>

VARIABLES
    data,                     \* send's argument `data`
    idx,                      \* number of chunks the for loop has finished
    sequence_number,          \* send's local
    packet,                   \* send's local: the packet in flight
    ack,                      \* send's local: the last packet it read
    queue,                    \* the module-level RTT history (units of 10^-5 s)
    timeout,                  \* the timeout armed on sock: <<sum, count>> of a mean
    spc,                      \* send's position
    toRecv,                   \* datagrams in flight, sender -> receiver
    toSend,                   \* datagrams in flight, receiver -> sender
    rpacket,                  \* recv's local `packet`
    expected_sequence_number, \* recv's local
    num_bytes,                \* recv's local
    sink,                     \* the bytes written to `dest`
    rlog,                     \* recv's last log line
    rpc,                      \* recv's position
    wire,                     \* every DATA packet send() handed to sock.send
    retx,                     \* chunk index -> number of retransmissions
    droppedChunks,            \* chunk indices of the DATA packets dropped
    dataDrops, ackDrops, premature, corrupted

vars == <<data, idx, sequence_number, packet, ack, queue, timeout, spc, toRecv,
          toSend,
          rpacket, expected_sequence_number, num_bytes, sink, rlog, rpc,
          wire, retx, droppedChunks, dataDrops, ackDrops, premature, corrupted>>

senderVars == <<idx, sequence_number, packet, ack, queue, timeout, spc>>
receiverVars == <<rpacket, expected_sequence_number, num_bytes, sink, rlog, rpc>>
faultVars == <<dataDrops, ackDrops, premature, corrupted, droppedChunks>>

\* ----------------------------------------------------------------- helpers
Min(a, b) == IF a < b THEN a ELSE b

\* Python's s[a:b] for 0 <= a <= b (0-based, clipped to the length).
Slice(s, a, b) == SubSeq(s, a + 1, Min(b, Len(s)))

\* s without its i-th element.
Remove(s, i) == SubSeq(s, 1, i - 1) \o SubSeq(s, i + 1, Len(s))

\* struct.pack("!HH", t, s): 4 bytes, big-endian.
Pack(t, s) == << (t \div 256) % 256, t % 256, (s \div 256) % 256, s % 256 >>

\* struct.unpack("!HH", b) for a 4-byte b; any other length is struct.error.
Unpackable(b) == Len(b) = HEADER_SIZE
Unpack(b) == << b[1] * 256 + b[2], b[3] * 256 + b[4] >>

\* sock.recv(bufsize) of one datagram: at most bufsize bytes of it.
SockRecv(msg, bufsize) == SubSeq(msg, 1, Min(bufsize, Len(msg)))

\* Offsets stepping by the whole packet size, header forgotten.
OffsetsWide(d) ==
    LET step == MAX_PACKET
        n == (Len(d) + step - 1) \div step
    IN  [j \in 1..n |-> (j - 1) * step]

\* range(0, len(data), util.MAX_PACKET - 4), as a sequence.
Offsets(d) ==
    LET step == MAX_PACKET - 4
        n == (Len(d) + step - 1) \div step
    IN  [j \in 1..n |-> (j - 1) * step]

\* [data[i:i + util.MAX_PACKET] for i in offsets]
Chunks(d) ==
    LET offs == Offsets(d)
    IN  [j \in 1..Len(offs) |-> Slice(d, offs[j], offs[j] + MAX_PACKET)]

\* ------------------------------------------------------------------ timing
RECURSIVE Pow(_, _)
Pow(b, n) == IF n = 0 THEN 1 ELSE b * Pow(b, n - 1)

\* Lines 57-59 and 69-71: ewm(alpha, adjust=True) gives the sample i places
\* before place t the weight (1 - alpha)^i.  With alpha = a / b the weights
\* of place t, scaled by b^(t - 1), are the integers (b - a)^i * b^(t-1-i);
\* WeightedSum is the sum of weight times sample up to place t, WeightSum
\* the sum of the weights.
RECURSIVE WeightedSum(_, _, _)
WeightedSum(q, alpha, t) ==
    IF t = 0 THEN 0
    ELSE Pow(alpha[2], t - 1) * q[t]
             + (alpha[2] - alpha[1]) * WeightedSum(q, alpha, t - 1)

RECURSIVE WeightSum(_, _)
WeightSum(alpha, t) ==
    IF t = 0 THEN 0
    ELSE Pow(alpha[2], t - 1) + (alpha[2] - alpha[1]) * WeightSum(alpha, t - 1)

\* round(x, 5) of the fraction n / d of a unit of 10^-5 s: the nearest whole
\* unit, a tie going to the even one.
Round5(n, d) ==
    LET f == n \div d
        r == 2 * (n % d)
    IN  IF r < d THEN f
        ELSE IF r > d THEN f + 1
        ELSE IF f % 2 = 0 THEN f ELSE f + 1

\* Lines 57-59 and 69-71: round(rtt_series.ewm(alpha, adjust=True).mean(), 5),
\* the rounded weighted average at place t of the history.
Ewm(q, alpha, t) == Round5(WeightedSum(q, alpha, t), WeightSum(alpha, t))

\* The sum of the rounded averages of places 1 to t.
RECURSIVE EwmSum(_, _, _)
EwmSum(q, alpha, t) ==
    IF t = 0 THEN 0 ELSE Ewm(q, alpha, t) + EwmSum(q, alpha, t - 1)

\* Lines 60 and 72: mean(moving_averages.tolist()), the value handed to
\* sock.settimeout, kept as <<sum, count>>.
Smoothed(q, alpha) == <<EwmSum(q, alpha, Len(q)), Len(q)>>

\* A timeout greater than zero makes sock.recv a blocking call with a bound;
\* settimeout(0.0) puts the socket in non-blocking mode.
Blocking(t) == t[1] > 0

\* Lines 66-67: the time measured when the timeout expires is no shorter
\* than the timeout; the model takes the next whole unit.
Expired(t) == (t[1] + t[2] - 1) \div t[2]

\* Line 54: the time measured when the ACK arrives, by a clock that resolves
\* the round trip.
Measured == {MaxElapsed}

\* Line 54: the same by any clock; 0 is a wait shorter than half a unit.
AnyElapsed == 0..MaxElapsed

\* ------------------------------------------------------------------ inputs
Alphabet == {97, 98}
HelloWorld == <<104, 101, 108, 108, 111, 32, 119, 111, 114, 108, 100>>
Ramp(n) == [i \in 1..n |-> i]
Buffers == UNION {[1..n -> Alphabet] : n \in 0..MaxLen} \cup {HelloWorld}
LossyBuffers == {Ramp(n) : n \in 0..MaxLenLossy}

InitWith(bufs) ==
    /\ data \in bufs
    /\ idx = 0
    /\ sequence_number = 0
    /\ packet = <<>>
    /\ ack = <<>>
    /\ queue = <<>>
    /\ timeout = <<INITIAL_TIMEOUT, 1>>
    /\ spc = "next"
    /\ toRecv = <<>>
    /\ toSend = <<>>
    /\ rpacket = <<>>
    /\ expected_sequence_number = 0
    /\ num_bytes = 0
    /\ sink = <<>>
    /\ rlog = "none"
    /\ rpc = "loop"
    /\ wire = <<>>
    /\ retx = [j \in 1..Len(Chunks(data)) |-> 0]
    /\ droppedChunks = {}
    /\ dataDrops = 0
    /\ ackDrops = 0
    /\ premature = 0
    /\ corrupted = 0

Init == InitWith(Buffers)

\* ------------------------------------------------------------------ sender
\* The timeout of sock.recv: it expires when nothing reaches the sender in
\* time.  With both directions empty and recv not about to acknowledge, the
\* packet or its ACK is lost and the timeout is certain; while something is
\* still on its way it is premature.
TimeoutIsCertain == toRecv = <<>> /\ toSend = <<>> /\ rpc # "accepted"

\* Lines 38-44: the for loop takes the next chunk, packs and sends it.
SendPacket ==
    /\ spc = "next"
    /\ idx < Len(Chunks(data))
    /\ LET chunk == Chunks(data)[idx + 1]
           p == Pack(DATA_PACKET, sequence_number) \o chunk
       IN  /\ packet' = p
           /\ toRecv' = Append(toRecv, [pkt |-> p, chunk |-> idx + 1])
           /\ wire' = Append(wire, p)
    /\ spc' = "wait"
    /\ UNCHANGED <<data, idx, sequence_number, ack, queue, timeout, toSend,
                   retx>>
    /\ UNCHANGED <<receiverVars, faultVars>>

\* Line 38, loop exhausted: send returns.
SendReturn ==
    /\ spc = "next"
    /\ idx = Len(Chunks(data))
    /\ spc' = "done"
    /\ UNCHANGED <<data, idx, sequence_number, packet, ack, queue, timeout,
                   toRecv, toSend, wire, retx>>
    /\ UNCHANGED <<receiverVars, faultVars>>

\* The test without the comparison of the sequence number.
AckMatchesAnySeq(a, seq) == Unpack(a)[1] = ACK_P

\* Line 53: the test that ends the wait for the current packet.
AckMatches(a, seq) == Unpack(a)[1] = ACK_P /\ Unpack(a)[2] = seq

\* A sequence bit that is never flipped.
NextSeqStuck(seq) == seq

\* Line 76: the sequence bit after an acknowledged packet.
NextSeq(seq) == 1 - seq

\* Lines 50-51: the history is cleared once it holds more than 5 samples.
Trimmed(q) == IF Len(q) > 5 THEN <<>> ELSE q

\* Lines 47-64 and 76: one sock.recv of the ACK wait loop, e the time since
\* start_time.  struct.unpack raises struct.error unless the packet is
\* exactly 4 bytes; struct.error is neither socket.timeout nor socket.error,
\* so it leaves send.
SenderRecvAfter(i, e) ==
    /\ spc = "wait"
    /\ i \in 1..Len(toSend)
    /\ toSend' = Remove(toSend, i)
    /\ ack' = SockRecv(toSend[i], MAX_PACKET)
    /\ IF ~Unpackable(ack')
       THEN /\ spc' = "raised"
            /\ UNCHANGED <<idx, sequence_number, queue, timeout>>
       ELSE IF AckMatches(ack', sequence_number)
       THEN /\ queue' = Append(Trimmed(queue), e)
            /\ timeout' = Smoothed(queue', ALPHA_ACK)
            /\ sequence_number' = NextSeq(sequence_number)
            /\ idx' = idx + 1
            /\ spc' = "next"
       ELSE /\ queue' = Trimmed(queue)
            /\ UNCHANGED <<idx, sequence_number, timeout, spc>>
    /\ UNCHANGED <<data, packet, toRecv, wire, retx>>
    /\ UNCHANGED <<receiverVars, faultVars>>

\* The same with a clock that resolves the round trip.
SenderRecv(i) == \E e \in Measured : SenderRecvAfter(i, e)

\* Lines 47 and 77-78: sock.recv on a socket in non-blocking mode raises
\* BlockingIOError, a socket.error, unless a packet is already there; send
\* logs it and returns.
SenderWouldBlock ==
    /\ spc = "wait"
    /\ ~Blocking(timeout)
    /\ spc' = "aborted"
    /\ UNCHANGED <<data, idx, sequence_number, packet, ack, queue, timeout,
                   toRecv, toSend, wire, retx>>
    /\ UNCHANGED <<receiverVars, faultVars>>

\* A timeout handler that builds the packet again, with the sequence bit
\* flipped, instead of sending the one in flight.
SenderTimeoutRepacks ==
    /\ spc = "wait"
    /\ Blocking(timeout)
    /\ \/ TimeoutIsCertain /\ premature' = premature
       \/ ~TimeoutIsCertain /\ premature < MaxPremature
                            /\ premature' = premature + 1
    /\ queue' = Append(queue, Expired(timeout))
    /\ timeout' = Smoothed(queue', ALPHA_TIMEOUT)
    /\ packet' = Pack(DATA_PACKET, NextSeq(sequence_number))
                     \o SubSeq(packet, HEADER_SIZE + 1, Len(packet))
    /\ toRecv' = Append(toRecv, [pkt |-> packet', chunk |-> idx + 1])
    /\ wire' = Append(wire, packet')
    /\ retx' = [retx EXCEPT ![idx + 1] = @ + 1]
    /\ UNCHANGED <<data, idx, sequence_number, ack, spc, toSend>>
    /\ UNCHANGED <<receiverVars, dataDrops, ackDrops, corrupted, droppedChunks>>

\* Lines 65-75: socket.timeout; the packet in flight is sent again.
SenderTimeout ==
    /\ spc = "wait"
    /\ Blocking(timeout)
    /\ \/ TimeoutIsCertain /\ premature' = premature
       \/ ~TimeoutIsCertain /\ premature < MaxPremature
                            /\ premature' = premature + 1
    /\ queue' = Append(queue, Expired(timeout))
    /\ timeout' = Smoothed(queue', ALPHA_TIMEOUT)
    /\ toRecv' = Append(toRecv, [pkt |-> packet, chunk |-> idx + 1])
    /\ wire' = Append(wire, packet)
    /\ retx' = [retx EXCEPT ![idx + 1] = @ + 1]
    /\ UNCHANGED <<data, idx, sequence_number, packet, ack, spc, toSend>>
    /\ UNCHANGED <<receiverVars, dataDrops, ackDrops, corrupted, droppedChunks>>

\* Lines 47-48: the read of a channel the receiving side has left returns
\* b"", which struct.unpack rejects like any packet that is not 4 bytes.
SenderEmptyRead ==
    /\ spc = "wait"
    /\ rpc \in {"returned", "raised"}
    /\ toSend = <<>>
    /\ ack' = <<>>
    /\ spc' = "raised"
    /\ UNCHANGED <<data, idx, sequence_number, packet, queue, timeout, toRecv,
                   toSend, wire, retx>>
    /\ UNCHANGED <<receiverVars, faultVars>>

\* Lines 32-36 and 93-95: a later transfer in the same process, send and recv
\* called again once both have returned.  Their locals are set anew; `queue`
\* is bound once, at line 19 when the module is loaded, and no line of send
\* empties it at the start of a call.
SendAgain ==
    /\ spc = "done"
    /\ rpc = "returned"
    /\ toRecv = <<>>
    /\ toSend = <<>>
    /\ data' \in LossyBuffers
    /\ idx' = 0
    /\ sequence_number' = 0
    /\ packet' = <<>>
    /\ ack' = <<>>
    /\ timeout' = <<INITIAL_TIMEOUT, 1>>
    /\ spc' = "next"
    /\ rpacket' = <<>>
    /\ expected_sequence_number' = 0
    /\ num_bytes' = 0
    /\ sink' = <<>>
    /\ rlog' = "none"
    /\ rpc' = "loop"
    /\ wire' = <<>>
    /\ retx' = [j \in 1..Len(Chunks(data')) |-> 0]
    /\ UNCHANGED <<queue, toRecv, toSend>>
    /\ UNCHANGED faultVars

\* ---------------------------------------------------------------- receiver
\* The branches with the first one taking every DATA packet, whatever its
\* sequence number.
BranchAcceptsAnySeq(p, expected) ==
    LET h == Unpack(SubSeq(p, 1, HEADER_SIZE))
    IN  IF h[1] = DATA_PACKET THEN "accepted"
        ELSE IF h[1] = ACK_P THEN "ack"
        ELSE IF h[2] # expected THEN "duplicate"
        ELSE "ignored"

\* The branches with the duplicate one missing: a DATA packet with another
\* sequence number falls to the final else.
BranchIgnoresDuplicates(p, expected) ==
    LET h == Unpack(SubSeq(p, 1, HEADER_SIZE))
    IN  IF h[1] = DATA_PACKET /\ h[2] = expected THEN "accepted"
        ELSE IF h[1] = ACK_P THEN "ack"
        ELSE "ignored"

\* The branches with the ACK one missing.
BranchWithoutAckCase(p, expected) ==
    LET h == Unpack(SubSeq(p, 1, HEADER_SIZE))
    IN  IF h[1] = DATA_PACKET /\ h[2] = expected THEN "accepted"
        ELSE IF h[2] # expected THEN "duplicate"
        ELSE "ignored"

\* The branches with the duplicate one taken by DATA packets only.
BranchDropsUnknownTypes(p, expected) ==
    LET h == Unpack(SubSeq(p, 1, HEADER_SIZE))
    IN  IF h[1] = DATA_PACKET /\ h[2] = expected THEN "accepted"
        ELSE IF h[1] = ACK_P THEN "ack"
        ELSE IF h[1] = DATA_PACKET /\ h[2] # expected THEN "duplicate"
        ELSE "ignored"

\* Lines 103-129: what recv does with a packet whose header unpacks.
\* The result names the branch taken.
Branch(p, expected) ==
    LET h == Unpack(SubSeq(p, 1, HEADER_SIZE))
    IN  IF h[1] = DATA_PACKET /\ h[2] = expected THEN "accepted"
        ELSE IF h[1] = ACK_P THEN "ack"
        ELSE IF h[2] # expected THEN "duplicate"
        ELSE "ignored"

\* The accepted branch with the ACK sent before the payload is written.
AcceptOrderAckFirst == <<"ack", "write">>

\* Lines 108-113: the accepted branch writes and flushes the payload, then
\* sends the ACK.
AcceptOrder == <<"write", "ack">>

\* What one statement of the accepted branch leaves in the sink, in the byte
\* count and on the channel to the sender.
SinkAfter(stmt, p) ==
    IF stmt = "write" THEN sink \o SubSeq(p, HEADER_SIZE + 1, Len(p)) ELSE sink
CountAfter(stmt, p) ==
    IF stmt = "write" THEN num_bytes + Len(p) - 4 ELSE num_bytes
ChannelAfter(stmt, p) ==
    IF stmt = "ack"
    THEN Append(toSend, Pack(ACK_P, Unpack(SubSeq(p, 1, HEADER_SIZE))[2]))
    ELSE toSend

\* Lines 99-134: one sock.recv of the receive loop.  An empty read ends the
\* loop; packet[:4] shorter than 4 bytes makes struct.unpack raise
\* struct.error, which no except clause of recv catches.  Of the accepted
\* branch the step takes the first statement; ReceiverFinish takes the rest.
ReceiverRecv(i) ==
    /\ rpc = "loop"
    /\ i \in 1..Len(toRecv)
    /\ toRecv' = Remove(toRecv, i)
    /\ rpacket' = SockRecv(toRecv[i].pkt, MAX_PACKET)
    /\ IF rpacket' = <<>>
       THEN /\ rpc' = "returned"
            /\ UNCHANGED <<expected_sequence_number, num_bytes, sink, rlog, toSend>>
       ELSE IF Len(rpacket') < HEADER_SIZE
       THEN /\ rpc' = "raised"
            /\ UNCHANGED <<expected_sequence_number, num_bytes, sink, rlog, toSend>>
       ELSE LET b == Branch(rpacket', expected_sequence_number)
                seq == Unpack(SubSeq(rpacket', 1, HEADER_SIZE))[2]
            IN  /\ rlog' = b
                /\ CASE b = "accepted" ->
                          /\ sink' = SinkAfter(AcceptOrder[1], rpacket')
                          /\ num_bytes' = CountAfter(AcceptOrder[1], rpacket')
                          /\ toSend' = ChannelAfter(AcceptOrder[1], rpacket')
                          /\ rpc' = "accepted"
                          /\ UNCHANGED expected_sequence_number
                     [] b = "duplicate" ->
                          /\ toSend' = Append(toSend, Pack(ACK_P, seq))
                          /\ rpc' = "loop"
                          /\ UNCHANGED <<sink, num_bytes, expected_sequence_number>>
                     [] OTHER ->
                          /\ rpc' = "loop"
                          /\ UNCHANGED <<sink, num_bytes, expected_sequence_number, toSend>>
    /\ UNCHANGED <<data, wire, retx>>
    /\ UNCHANGED <<senderVars, faultVars>>

\* Lines 108-116: the rest of the accepted branch, and the flip of the
\* expected sequence number.
ReceiverFinish ==
    /\ rpc = "accepted"
    /\ sink' = SinkAfter(AcceptOrder[2], rpacket)
    /\ num_bytes' = CountAfter(AcceptOrder[2], rpacket)
    /\ toSend' = ChannelAfter(AcceptOrder[2], rpacket)
    /\ expected_sequence_number' = 1 - expected_sequence_number
    /\ rpc' = "loop"
    /\ UNCHANGED <<data, toRecv, wire, retx, rpacket, rlog>>
    /\ UNCHANGED <<senderVars, faultVars>>

\* Lines 99-101: the read of a channel the sending side has left: b"".
ReceiverEmptyRead ==
    /\ rpc = "loop"
    /\ spc \in {"done", "raised", "aborted"}
    /\ toRecv = <<>>
    /\ rpacket' = <<>>
    /\ rpc' = "returned"
    /\ UNCHANGED <<expected_sequence_number, num_bytes, sink, rlog>>
    /\ UNCHANGED <<data, toRecv, toSend, wire, retx>>
    /\ UNCHANGED <<senderVars, faultVars>>

\* A receive timeout handled like a fatal error: the loop ends.
ReceiverTimeoutBreaks ==
    /\ rpc = "loop"
    /\ toRecv = <<>>
    /\ rlog' = "timeout"
    /\ rpc' = "returned"
    /\ UNCHANGED <<rpacket, expected_sequence_number, num_bytes, sink>>
    /\ UNCHANGED <<data, toRecv, toSend, wire, retx>>
    /\ UNCHANGED <<senderVars, faultVars>>

\* Lines 130-131: socket.timeout in recv is logged; the loop goes on.
ReceiverTimeout ==
    /\ rpc = "loop"
    /\ toRecv = <<>>
    /\ rlog' = "timeout"
    /\ rpc' = "loop"
    /\ UNCHANGED <<rpacket, expected_sequence_number, num_bytes, sink>>
    /\ UNCHANGED <<data, toRecv, toSend, wire, retx>>
    /\ UNCHANGED <<senderVars, faultVars>>

\* Lines 132-134: socket.error in recv, raised by sock.recv (line 99) or by
\* the sock.send of an ACK (line 113), is logged and ends the loop; line 136
\* returns num_bytes.
ReceiverSocketError ==
    /\ \/ rpc = "loop"
       \/ rpc = "accepted" /\ AcceptOrder[2] = "ack"
    /\ rlog' = "error"
    /\ rpc' = "returned"
    /\ UNCHANGED <<rpacket, expected_sequence_number, num_bytes, sink>>
    /\ UNCHANGED <<data, toRecv, toSend, wire, retx>>
    /\ UNCHANGED <<senderVars, faultVars>>

\* Lines 77-78: socket.error raised by the sock.send of line 40 or the
\* sock.recv of line 47 is logged, and send returns.
SenderSocketError ==
    /\ \/ spc = "next" /\ idx < Len(Chunks(data))
       \/ spc = "wait"
    /\ spc' = "aborted"
    /\ UNCHANGED <<data, idx, sequence_number, packet, ack, queue, timeout,
                   toRecv, toSend, wire, retx>>
    /\ UNCHANGED <<receiverVars, faultVars>>

\* Lines 65-73 and 77-78: socket.error raised by the sock.send of line 74,
\* after the timeout handler has recorded its sample.
SenderResendError ==
    /\ spc = "wait"
    /\ Blocking(timeout)
    /\ \/ TimeoutIsCertain /\ premature' = premature
       \/ ~TimeoutIsCertain /\ premature < MaxPremature
                            /\ premature' = premature + 1
    /\ queue' = Append(queue, Expired(timeout))
    /\ timeout' = Smoothed(queue', ALPHA_TIMEOUT)
    /\ spc' = "aborted"
    /\ UNCHANGED <<data, idx, sequence_number, packet, ack, toRecv, toSend,
                   wire, retx>>
    /\ UNCHANGED <<receiverVars, dataDrops, ackDrops, corrupted, droppedChunks>>

\* ----------------------------------------------------------------- channel
\* The channel loses a DATA packet in flight.
DropData(i) ==
    /\ dataDrops < MaxDataDrops
    /\ i \in 1..Len(toRecv)
    /\ toRecv' = Remove(toRecv, i)
    /\ droppedChunks' = droppedChunks \cup {toRecv[i].chunk}
    /\ dataDrops' = dataDrops + 1
    /\ UNCHANGED <<data, toSend, wire, retx, ackDrops, premature, corrupted>>
    /\ UNCHANGED <<senderVars, receiverVars>>

\* The channel loses an ACK in flight.
DropAck(i) ==
    /\ ackDrops < MaxAckDrops
    /\ i \in 1..Len(toSend)
    /\ toSend' = Remove(toSend, i)
    /\ ackDrops' = ackDrops + 1
    /\ UNCHANGED <<data, toRecv, wire, retx, dataDrops, premature, corrupted,
                   droppedChunks>>
    /\ UNCHANGED <<senderVars, receiverVars>>

\* The channel cuts a DATA packet in flight down to n bytes.
MangleData(i, n) ==
    /\ corrupted < MaxCorrupt
    /\ i \in 1..Len(toRecv)
    /\ n < Len(toRecv[i].pkt)
    /\ toRecv' = [toRecv EXCEPT ![i].pkt = SubSeq(@, 1, n)]
    /\ corrupted' = corrupted + 1
    /\ UNCHANGED <<data, toSend, wire, retx, dataDrops, ackDrops, premature,
                   droppedChunks>>
    /\ UNCHANGED <<senderVars, receiverVars>>

\* The channel cuts an ACK in flight down to n bytes.
MangleAck(i, n) ==
    /\ corrupted < MaxCorrupt
    /\ i \in 1..Len(toSend)
    /\ n < Len(toSend[i])
    /\ toSend' = [toSend EXCEPT ![i] = SubSeq(@, 1, n)]
    /\ corrupted' = corrupted + 1
    /\ UNCHANGED <<data, toRecv, wire, retx, dataDrops, ackDrops, premature,
                   droppedChunks>>
    /\ UNCHANGED <<senderVars, receiverVars>>

\* The type fields a damaged header may show: ACK, and a value that is
\* neither DATA nor ACK.
GarbledTypes == {ACK_P, ACK_P + 1}

\* The channel delivers a DATA packet with another header: type t, sequence
\* number s.
GarbleData(i, t, s) ==
    /\ corrupted < MaxCorrupt
    /\ i \in 1..Len(toRecv)
    /\ Len(toRecv[i].pkt) >= HEADER_SIZE
    /\ toRecv' = [toRecv EXCEPT ![i].pkt =
                     Pack(t, s) \o SubSeq(@, HEADER_SIZE + 1, Len(@))]
    /\ corrupted' = corrupted + 1
    /\ UNCHANGED <<data, toSend, wire, retx, dataDrops, ackDrops, premature,
                   droppedChunks>>
    /\ UNCHANGED <<senderVars, receiverVars>>

\* ---------------------------------------------------------- specifications
\* Spec: the channel loses, delays and mangles nothing.
Next ==
    \/ SendPacket
    \/ SendReturn
    \/ SenderRecv(1)
    \/ ReceiverRecv(1)
    \/ ReceiverFinish
    \/ ReceiverEmptyRead

Spec == Init /\ [][Next]_vars

\* SpecFifo: the channel may lose packets and delay them, and delivers the
\* rest in the order sent.
InitLossy == InitWith(LossyBuffers)

NextFifo ==
    \/ SendPacket
    \/ SendReturn
    \/ SenderRecv(1)
    \/ SenderTimeout
    \/ ReceiverRecv(1)
    \/ ReceiverFinish
    \/ ReceiverEmptyRead
    \/ \E i \in 1..Len(toRecv) : DropData(i)
    \/ \E i \in 1..Len(toSend) : DropAck(i)

SpecFifo == InitLossy /\ [][NextFifo]_vars

\* Each blocking call returns, and each process takes its next step.
Fairness ==
    /\ WF_vars(SendPacket)
    /\ WF_vars(SendReturn)
    /\ WF_vars(SenderRecv(1))
    /\ WF_vars(SenderTimeout)
    /\ WF_vars(ReceiverRecv(1))
    /\ WF_vars(ReceiverFinish)
    /\ WF_vars(ReceiverEmptyRead)

FairSpecFifo == SpecFifo /\ Fairness

\* SpecLossy: the channel may lose packets and delay each by its own amount,
\* so a packet may overtake another.
NextLossy ==
    \/ SendPacket
    \/ SendReturn
    \/ \E i \in 1..Len(toSend) : SenderRecv(i)
    \/ SenderTimeout
    \/ \E i \in 1..Len(toRecv) : ReceiverRecv(i)
    \/ ReceiverFinish
    \/ ReceiverEmptyRead
    \/ \E i \in 1..Len(toRecv) : DropData(i)
    \/ \E i \in 1..Len(toSend) : DropAck(i)

SpecLossy == InitLossy /\ [][NextLossy]_vars

\* SpecMangle: a FIFO channel that may also cut a packet short.
NextMangle ==
    \/ SendPacket
    \/ SendReturn
    \/ SenderRecv(1)
    \/ SenderEmptyRead
    \/ SenderTimeout
    \/ ReceiverRecv(1)
    \/ ReceiverFinish
    \/ ReceiverEmptyRead
    \/ \E i \in 1..Len(toRecv), n \in 0..(HEADER_SIZE - 1) : MangleData(i, n)
    \/ \E i \in 1..Len(toSend), n \in 0..(HEADER_SIZE - 1) : MangleAck(i, n)

SpecMangle == InitLossy /\ [][NextMangle]_vars

\* SpecError: a FIFO channel that may lose packets, on which a socket call
\* may fail with socket.error and the receiver's read may time out.
NextError ==
    \/ SendPacket
    \/ SendReturn
    \/ SenderRecv(1)
    \/ SenderTimeout
    \/ SenderSocketError
    \/ SenderResendError
    \/ ReceiverRecv(1)
    \/ ReceiverFinish
    \/ ReceiverEmptyRead
    \/ ReceiverTimeout
    \/ ReceiverSocketError
    \/ \E i \in 1..Len(toRecv) : DropData(i)
    \/ \E i \in 1..Len(toSend) : DropAck(i)

SpecError == InitLossy /\ [][NextError]_vars

\* SpecCalls: transfers one after another in one process, over a channel
\* that loses, delays and mangles nothing.
NextCalls ==
    \/ SendPacket
    \/ SendReturn
    \/ SendAgain
    \/ SenderRecv(1)
    \/ ReceiverRecv(1)
    \/ ReceiverFinish
    \/ ReceiverEmptyRead

SpecCalls == InitLossy /\ [][NextCalls]_vars

\* SpecTiming: an in-order channel that loses nothing, timeouts that may
\* fire while the ACK is on its way, and a clock that may measure a wait
\* too short to survive the rounding.
NextTiming ==
    \/ SendPacket
    \/ SendReturn
    \/ \E e \in AnyElapsed : SenderRecvAfter(1, e)
    \/ SenderTimeout
    \/ SenderWouldBlock
    \/ ReceiverRecv(1)
    \/ ReceiverFinish
    \/ ReceiverEmptyRead

SpecTiming == InitLossy /\ [][NextTiming]_vars

\* ------------------------------------------------------------------ claims
IsPrefix(s, t) == Len(s) <= Len(t) /\ s = SubSeq(t, 1, Len(s))

Header(p) == Unpack(SubSeq(p, 1, HEADER_SIZE))
Payload(p) == SubSeq(p, HEADER_SIZE + 1, Len(p))

RECURSIVE ConcatPayloads(_)
ConcatPayloads(w) ==
    IF w = <<>> THEN <<>> ELSE Payload(Head(w)) \o ConcatPayloads(Tail(w))

TotalRetx == LET RECURSIVE Sum(_)
                 Sum(k) == IF k = 0 THEN 0 ELSE retx[k] + Sum(k - 1)
             IN  Sum(Len(retx))

\* C1 (as claimed; SpecLossy): over a channel that drops packets and delays
\* each by its own amount, the sink is always a prefix of the data: no chunk
\* is written twice, skipped or written out of order.
C1_SinkIsPrefixOfData == IsPrefix(sink, data)

C5_ChunksFitAndPartition ==
    /\ \A i \in 1..Len(wire) :
          /\ Len(wire[i]) <= MAX_PACKET
          /\ Len(Payload(wire[i])) <= MAX_PACKET - 4
    /\ (spc = "done" => ConcatPayloads(wire) = data)

\* C6 (as claimed; Spec): for b"hello world" with MAX_PACKET = 8, when recv
\* has returned the wire carried exactly 3 DATA packets, with sequence numbers
\* 0, 1, 0 and payloads b"hell", b"o wo", b"rld", the sink equals the buffer
\* and the byte count is 11.
C6_HelloWorldScenario ==
    (data = HelloWorld /\ rpc = "returned") =>
        /\ wire = << Pack(DATA_PACKET, 0) \o <<104, 101, 108, 108>>,
                     Pack(DATA_PACKET, 1) \o <<111, 32, 119, 111>>,
                     Pack(DATA_PACKET, 0) \o <<114, 108, 100>> >>
        /\ sink = HelloWorld
        /\ num_bytes = 11

\* C7 (Spec): with no loss and no retransmission the i-th DATA packet on the
\* wire (counted from 0) carries sequence number i mod 2.
C7_SequenceAlternates ==
    \A i \in 1..Len(wire) : Header(wire[i]) = <<DATA_PACKET, (i - 1) % 2>>

C7_Witness == Len(wire) = 3 /\ spc = "done"

\* C8 (as claimed; SpecMangle): a read of the ACK wait loop that returns
\* anything but an ACK for the current sequence number (another sequence
\* number, another type, a packet that is not 4 bytes, an empty read) leaves
\* the sender waiting for the same packet: same chunk, same sequence bit, and
\* send neither returns nor raises.
C8_OtherContentIsNoOp ==
    [][ ( /\ SenderRecv(1) \/ SenderEmptyRead
          /\ ~(Unpackable(ack') /\ AckMatches(ack', sequence_number)) )
        => ( /\ spc' = "wait"
             /\ idx' = idx
             /\ sequence_number' = sequence_number
             /\ packet' = packet ) ]_vars

\* C9 (as claimed; SpecMangle): a non-empty packet shorter than the 4-byte
\* header is skipped by recv: nothing is written, no ACK is sent, the expected
\* sequence number and the byte count stay, and the loop goes on.
C9_ShortPacketSkipped ==
    [][ ( /\ ReceiverRecv(1)
          /\ rpacket' # <<>>
          /\ Len(rpacket') < HEADER_SIZE )
        => ( /\ rpc' = "loop"
             /\ sink' = sink
             /\ toSend' = toSend
             /\ num_bytes' = num_bytes
             /\ expected_sequence_number' = expected_sequence_number ) ]_vars

\* C10 (SpecFifo): a DATA packet whose sequence number is not the expected
\* one makes recv send an ACK carrying that sequence number, write nothing,
\* and keep the byte count and the expected sequence number.
C10_DuplicateIsAckedNotWritten ==
    [][ ( /\ ReceiverRecv(1)
          /\ Len(rpacket') >= HEADER_SIZE
          /\ Header(rpacket')[1] = DATA_PACKET
          /\ Header(rpacket')[2] # expected_sequence_number )
        => ( /\ toSend' = Append(toSend, Pack(ACK_P, Header(rpacket')[2]))
             /\ sink' = sink
             /\ num_bytes' = num_bytes
             /\ expected_sequence_number' = expected_sequence_number
             /\ rpc' = "loop" ) ]_vars

C10_Witness ==
    /\ rlog = "duplicate"
    /\ rpacket # <<>>
    /\ Header(rpacket)[1] = DATA_PACKET
    /\ toSend # <<>>
    /\ toSend[Len(toSend)] = Pack(ACK_P, Header(rpacket)[2])
    /\ Header(rpacket)[2] # expected_sequence_number

\* SpecGarble: an in-order channel that may damage the header of a DATA
\* packet.
NextGarble ==
    \/ SendPacket
    \/ SendReturn
    \/ SenderRecv(1)
    \/ SenderTimeout
    \/ ReceiverRecv(1)
    \/ ReceiverFinish
    \/ ReceiverEmptyRead
    \/ \E i \in 1..Len(toRecv), t \in GarbledTypes, s \in {0, 1} :
          GarbleData(i, t, s)

SpecGarble == InitLossy /\ [][NextGarble]_vars

\* C11 (as claimed; SpecGarble): a packet whose type is neither DATA nor ACK
\* is dropped by recv whatever its sequence number: no ACK is sent, nothing is
\* written, the expected sequence number and the byte count stay.
C11_UnknownTypeDropped ==
    [][ ( /\ ReceiverRecv(1)
          /\ Len(rpacket') >= HEADER_SIZE
          /\ Header(rpacket')[1] \notin {DATA_PACKET, ACK_P} )
        => ( /\ toSend' = toSend
             /\ sink' = sink
             /\ num_bytes' = num_bytes
             /\ expected_sequence_number' = expected_sequence_number ) ]_vars

\* C17 (SpecGarble): a packet whose type field is ACK is ignored by recv
\* whatever its sequence number: no ACK is sent, nothing is written, the
\* expected sequence number and the byte count stay, and the loop goes on.
C17_AckTypeIgnored ==
    [][ ( /\ ReceiverRecv(1)
          /\ Len(rpacket') >= HEADER_SIZE
          /\ Header(rpacket')[1] = ACK_P )
        => ( /\ toSend' = toSend
             /\ sink' = sink
             /\ num_bytes' = num_bytes
             /\ expected_sequence_number' = expected_sequence_number
             /\ rpc' = "loop" ) ]_vars

C17_Witness ==
    /\ rlog = "ack"
    /\ Len(rpacket) >= HEADER_SIZE
    /\ Header(rpacket)[1] = ACK_P
    /\ Header(rpacket)[2] # expected_sequence_number
    /\ toSend = <<>>
    /\ rpc = "loop"

\* C18 (as claimed; SpecGarble): recv's final else branch is never taken.
C18_FinalElseUnreachable == rlog # "ignored"

\* C18 (amended; SpecGarble): recv's final else branch is taken exactly by
\* the packets whose type is neither DATA nor ACK and whose sequence number
\* is the expected one; no DATA or ACK packet reaches it.
C18_FinalElseExactly ==
    [][ ( /\ ReceiverRecv(1)
          /\ Len(rpacket') >= HEADER_SIZE )
        => ( rlog' = "ignored" <=>
               ( /\ Header(rpacket')[1] \notin {DATA_PACKET, ACK_P}
                 /\ Header(rpacket')[2] = expected_sequence_number ) ) ]_vars

C18_Witness ==
    /\ rlog = "ignored"
    /\ Len(rpacket) >= HEADER_SIZE
    /\ Header(rpacket)[1] \notin {DATA_PACKET, ACK_P}
    /\ Header(rpacket)[2] = expected_sequence_number

\* C12 (as claimed; SpecFifo): the RTT history never holds more than 5
\* entries, also through runs of timeouts.
C12_HistoryAtMostFive == Len(queue) <= 5

\* C16 (SpecFifo): a step of the ACK wait that puts a packet on the wire (a
\* timeout) sends the bytes of the packet in flight again and keeps the chunk
\* index, the sequence bit and the wait; the chunk index and the sequence bit
\* change only in a step that reads an ACK carrying the current sequence
\* number, which moves to the next chunk and flips the bit.
C16_RetransmitSameAdvanceOnAck ==
    [][ /\ ( /\ spc = "wait"
             /\ Len(wire') = Len(wire) + 1 )
           => ( /\ wire'[Len(wire')] = wire[Len(wire)]
                /\ toRecv' # <<>>
                /\ toRecv'[Len(toRecv')].pkt = wire[Len(wire)]
                /\ packet' = packet
                /\ idx' = idx
                /\ sequence_number' = sequence_number
                /\ spc' = "wait" )
        /\ (idx' # idx \/ sequence_number' # sequence_number)
           => ( /\ spc = "wait"
                /\ Unpackable(ack')
                /\ Unpack(ack') = <<ACK_P, sequence_number>>
                /\ Len(toSend') = Len(toSend) - 1
                /\ idx' = idx + 1
                /\ sequence_number' = 1 - sequence_number ) ]_vars

C16_Witness ==
    /\ \E k \in 1..Len(retx) : retx[k] >= 1 /\ idx >= k
    /\ Len(wire) >= 3
    /\ \E j \in 1..(Len(wire) - 1) : wire[j] = wire[j + 1]
    /\ sequence_number = 1

\* The number of chunks in the sink: each write adds MAX_PACKET - 4 bytes,
\* the last one what is left.
WrittenChunks ==
    (Len(sink) + (MAX_PACKET - 4) - 1) \div (MAX_PACKET - 4)

\* C19 (SpecFifo): on a channel that loses packets and keeps the order of
\* the rest, the sink is a prefix of the data and the number of chunks written
\* is the number of chunks acknowledged to the sender or one more.
C19_WrittenIsAckedOrOneMore ==
    /\ IsPrefix(sink, data)
    /\ WrittenChunks \in {idx, idx + 1}

C19_Witness ==
    /\ spc = "wait"
    /\ idx >= 1
    /\ premature >= 1
    /\ Unpackable(ack)
    /\ Unpack(ack) = <<ACK_P, 1 - sequence_number>>
    /\ WrittenChunks = idx + 1
    /\ toSend # <<>>
    /\ Unpack(toSend[1]) = <<ACK_P, 1 - sequence_number>>

\* C14 (SpecFifo): whenever an ACK that ends the sender's wait for the
\* current chunk is on the channel, the payload of that chunk is in the sink:
\* recv writes and flushes before it acknowledges.
C14_WrittenBeforeAcked ==
    ( /\ spc = "wait"
      /\ \E j \in 1..Len(toSend) :
            Unpackable(toSend[j]) /\ AckMatches(toSend[j], sequence_number) )
    => ( /\ WrittenChunks = idx + 1
         /\ IsPrefix(sink, data) )

C14_Witness ==
    /\ spc = "wait"
    /\ idx >= 1
    /\ rpc = "loop"
    /\ rlog = "accepted"
    /\ toSend = <<Pack(ACK_P, sequence_number)>>
    /\ WrittenChunks = idx + 1

\* C15 (SpecError): a socket.error in recv ends the loop at once and recv
\* returns the bytes counted so far; a socket.error in send ends send without
\* an exception and without another packet; an empty read ends recv's loop
\* with the number of bytes written; a receive timeout in recv changes nothing
\* and the loop goes on.
C15_ErrorsEndTimeoutsContinue ==
    /\ [][ReceiverSocketError =>
            /\ rpc' = "returned"
            /\ num_bytes' = num_bytes
            /\ num_bytes' = Len(sink')
            /\ sink' = sink /\ toSend' = toSend]_vars
    /\ [][(SenderSocketError \/ SenderResendError) =>
            /\ spc' = "aborted"
            /\ wire' = wire /\ toRecv' = toRecv]_vars
    /\ [][spc = "aborted" => spc' = "aborted" /\ wire' = wire]_vars
    /\ [][ReceiverEmptyRead =>
            /\ rpc' = "returned"
            /\ num_bytes' = Len(sink')
            /\ sink' = sink]_vars
    /\ [][ReceiverTimeout =>
            /\ rpc' = "loop"
            /\ UNCHANGED <<expected_sequence_number, num_bytes, sink, toSend,
                           toRecv>>]_vars
    /\ [][rpc = "returned" => UNCHANGED <<rpc, num_bytes, sink>>]_vars

C15_Witness ==
    /\ rlog = "error"
    /\ rpc = "returned"
    /\ spc = "aborted"
    /\ num_bytes > 0
    /\ Len(sink) < Len(data)
    /\ Len(queue) > 0

\* C13 (SpecCalls): every call of send starts with an empty RTT history, so
\* no sample of an earlier transfer is in the history of a later one.
C13_CallStartsWithEmptyHistory ==
    (spc = "next" /\ idx = 0 /\ wire = <<>>) => queue = <<>>

\* C20 (SpecTiming): every timeout armed after a sample is recorded is
\* greater than zero, whatever the samples, so the next wait blocks with a
\* positive bound and send never ends because of the timeout it computed.
C20_ArmedTimeoutPositive ==
    /\ queue # <<>> => Blocking(timeout)
    /\ spc # "aborted"

====
